---- MODULE Spec2Model ----
(***************************************************************************)
(* Borrowing engine of the library management API: the in-memory           *)
(* transactions route (borrow / return / renew) with its book counters,    *)
(* member table, policy helpers and late-fee calculator.                   *)
(*                                                                         *)
(* Time is counted in clock ticks from 2024-01-10T00:00Z (day 0); a day is *)
(* TicksPerDay ticks, so an instant can fall strictly inside a day.        *)
(* Money is counted in cents.                                              *)
(***************************************************************************)
EXTENDS Integers, Sequences, FiniteSets, TLC

\* ------------------------------------------------------------------ bounds
\* Under Spec: the number of requests that may succeed in one run (a request
\* that would succeed is disabled beyond it; failing requests are never
\* disabled; the code has no such cap).
MaxOps == 2

\* Under LedgerSpec, which follows borrow/return sequences only: the number of
\* Borrow requests and of Return requests that may succeed in one run.
MaxLedgerBorrows == 6
MaxLedgerReturns == 1

\* Under RenewSpec, which follows return/renew sequences on the initial
\* store: the number of Renew requests that may succeed in one run.  One
\* transaction takes at most 3 renewals, so the bound leaves room for a fourth.
MaxRenewals == 4

\* Under ConcSpec: the number of requests the server receives in one run.
MaxInflight == 2

\* Under CatalogueSpec: the number of books by which the catalogue may differ
\* from the initial one (a request whose result would differ by more is
\* disabled; failing requests are never disabled).
MaxCatalogueEdits == 2

\* Under FeeSpec: the number of days past trans1's due date up to which the
\* clock is drawn.
MaxFeeDays == 52

\* Resolution of the clock: ticks per day (the code counts milliseconds).
TicksPerDay == 2

\* ------------------------------------------------------- calendar constants
\* 2024-01-15, borrowDate of trans1, in days since 2024-01-10.
Trans1BorrowDay == 5
\* 2024-02-14, dueDate of trans1.
Trans1DueDay == 35
\* 2024-01-10, borrowDate of trans2.
Trans2BorrowDay == 0
\* 2024-02-01, dueDate of trans2.
Trans2DueDay == 22
\* 2024-01-30, returnDate of trans2.
Trans2ReturnDay == 20

\* Value of a date property that is not set (returnDate of an open loan).
NoDate == -1

Day(d) == d * TicksPerDay

\* ---------------------------------------------------------------- members
\* The member table without user2.
users_WithoutUser2 ==
  [ user1 |-> [membershipType |-> "PREMIUM", isActive |-> "undefined"] ]

\* The engine's member table.  Its records carry no isActive property: the
\* property reads as undefined, which is falsy.  Property values are written
\* "true", "false" and "undefined".
users ==
  [ user1 |-> [membershipType |-> "PREMIUM", isActive |-> "undefined"],
    user2 |-> [membershipType |-> "STUDENT", isActive |-> "undefined"] ]

UserIds == DOMAIN users

\* JavaScript truthiness of a property value that is a boolean or undefined.
Truthy(v) == v = "true"

\* The authenticated caller is whatever id the token carries: the two
\* members of the engine and one id the engine does not know.
Callers == {"user1", "user2", "user3"}

\* Initial book counters of the engine.
InitBooks ==
  [ book1 |-> [availableQuantity |-> 3, totalQuantity |-> 5],
    book2 |-> [availableQuantity |-> 2, totalQuantity |-> 4],
    book3 |-> [availableQuantity |-> 1, totalQuantity |-> 3] ]

BookIds == DOMAIN InitBooks

\* bookId values a request may carry: every book of the engine and one id
\* that matches none.
RequestBookIds == BookIds \cup {"book9"}

\* Initial transaction store.
InitTransactions ==
  << [ _id |-> 1, userId |-> "user1", bookId |-> "book1",
       borrowDate |-> Day(Trans1BorrowDay), dueDate |-> Day(Trans1DueDay),
       returnDate |-> NoDate, status |-> "BORROWED",
       lateFee |-> 0, renewalCount |-> 0 ],
     [ _id |-> 2, userId |-> "user2", bookId |-> "book2",
       borrowDate |-> Day(Trans2BorrowDay), dueDate |-> Day(Trans2DueDay),
       returnDate |-> Day(Trans2ReturnDay), status |-> "RETURNED",
       lateFee |-> 0, renewalCount |-> 1 ] >>

\* ----------------------------------------------------------------- policy
getBorrowingLimit(membershipType) ==
  CASE membershipType = "BASIC"   -> 3
    [] membershipType = "PREMIUM" -> 10
    [] membershipType = "STUDENT" -> 5
    [] OTHER                      -> 3

borrowPeriods(membershipType) ==
  CASE membershipType = "BASIC"   -> 14
    [] membershipType = "PREMIUM" -> 30
    [] membershipType = "STUDENT" -> 21
    [] OTHER                      -> 14

\* calculateDueDate that always uses the fallback period.
calculateDueDate_FallbackOnly(borrowDate, membershipType) ==
  borrowDate + Day(borrowPeriods("none"))

calculateDueDate(borrowDate, membershipType) ==
  borrowDate + Day(borrowPeriods(membershipType))

\* CeilDiv that rounds down.
CeilDiv_Floor(a, b) == a \div b

\* table[key] || fallback, for a table of numbers keyed by its own property
\* names: a missing key reads as undefined and 0 is falsy.
OrDefault(table, key, fallback) ==
  IF key \in DOMAIN table /\ table[key] # 0 THEN table[key] ELSE fallback

\* The membership types of the schema, and two values outside it: another
\* name, and a record without the property.
MembershipTypes == {"BASIC", "PREMIUM", "STUDENT", "GOLD", "undefined"}

\* usersRoute_getBorrowingLimit with the STUDENT entry missing.
usersRoute_getBorrowingLimit_NoStudent(membershipType) ==
  OrDefault([BASIC |-> 3, PREMIUM |-> 10], membershipType, 3)

\* getBorrowingLimit of the users route.
usersRoute_getBorrowingLimit(membershipType) ==
  OrDefault([BASIC |-> 3, PREMIUM |-> 10, STUDENT |-> 5], membershipType, 3)

\* userSchema.virtual('borrowingLimit') of a User with this membershipType.
User_borrowingLimit(membershipType) ==
  OrDefault([BASIC |-> 3, PREMIUM |-> 10, STUDENT |-> 5], membershipType, 3)

\* transactionSchema.methods.setDueDate on a Transaction with this
\* borrowDate: the dueDate it sets and returns.
Transaction_setDueDate(borrowDate, membershipType) ==
  LET days == OrDefault([BASIC |-> 14, PREMIUM |-> 30, STUDENT |-> 21],
                        membershipType, 14)
  IN borrowDate + Day(days)

\* Math.ceil(a / b) for b > 0.
CeilDiv(a, b) == IF a % b = 0 THEN a \div b ELSE (a \div b) + 1

Min(a, b) == IF a <= b THEN a ELSE b

\* calculateLateFee without the maximum.
calculateLateFee_NoCap(dueDate, returnDate) ==
  IF returnDate <= dueDate
  THEN 0
  ELSE CeilDiv(returnDate - dueDate, TicksPerDay) * 50

\* Late fee in cents.
calculateLateFee(dueDate, returnDate) ==
  IF returnDate <= dueDate
  THEN 0
  ELSE Min(CeilDiv(returnDate - dueDate, TicksPerDay) * 50, 2500)

\* ------------------------------------------------------------------ state
\* books, transactions: the engine's book counters and transaction store;
\* now: the system clock; response: the last response sent;
\* catalogue: the book array of the catalogue route (a separate array);
\* inflight: the requests the server has received, each with its reply.
VARIABLES books, transactions, now, response, catalogue, inflight

vars == <<books, transactions, now, response, catalogue, inflight>>

\* Initial book array of the catalogue route.  _id n stands for `book${n}`,
\* ISBN values are numbered.
InitCatalogue ==
  << [ _id |-> 1, ISBN |-> 1, availableQuantity |-> 3, totalQuantity |-> 5 ],
     [ _id |-> 2, ISBN |-> 2, availableQuantity |-> 2, totalQuantity |-> 4 ],
     [ _id |-> 3, ISBN |-> 3, availableQuantity |-> 1, totalQuantity |-> 3 ] >>

\* The clock starts on trans1's due date.
StartNow == Day(Trans1DueDay)

\* Instants the clock visits: the start, and one tick past 2024-02-19, which
\* is inside the sixth day after trans1's due date.
ClockInstants == {StartNow, StartNow + Day(5) + 1}

Init ==
  /\ books = InitBooks
  /\ transactions = InitTransactions
  /\ now = StartNow
  /\ response = [status |-> 0, kind |-> "none"]
  /\ catalogue = InitCatalogue
  /\ inflight = {}

\* Indices of the store's transactions.
TransIdx == 1 .. Len(transactions)

\* Index of the first transaction at or after position i whose _id is
\* transactionId; 0 when there is none.
RECURSIVE FindIndexFrom(_, _)
FindIndexFrom(transactionId, i) ==
  IF i > Len(transactions) THEN 0
  ELSE IF transactions[i]._id = transactionId THEN i
  ELSE FindIndexFrom(transactionId, i + 1)

\* transactions.findIndex(t => t._id === transactionId); 0 when none.
FindIndex(transactionId) == FindIndexFrom(transactionId, 1)

\* transactionId values a request may carry: the id of every transaction in
\* the store and one id that matches none (0).
RequestTransIds == 0 .. Len(transactions)

\* isBorrowed with the status literal misspelt.
isBorrowed_Lowercase(t) == t.status = "borrowed"

\* t.status === 'BORROWED'
isBorrowed(t) == t.status = "BORROWED"

\* transactions.filter(t => t.userId === userId && t.status === 'BORROWED').length
currentBorrowedCount(userId) ==
  Cardinality({i \in TransIdx :
                 /\ transactions[i].userId = userId
                 /\ isBorrowed(transactions[i])})

\* existingTransaction comparing the book against the wrong property.
existingTransaction_WrongField(userId, bookId) ==
  \E i \in TransIdx :
    /\ transactions[i].userId = userId
    /\ transactions[i].userId = bookId
    /\ isBorrowed(transactions[i])

\* transactions.find(t => t.userId === userId && t.bookId === bookId
\*                        && t.status === 'BORROWED') is defined
existingTransaction(userId, bookId) ==
  \E i \in TransIdx :
    /\ transactions[i].userId = userId
    /\ transactions[i].bookId = bookId
    /\ isBorrowed(transactions[i])

\* BorrowOutcome without the availability check.
BorrowOutcome_NoAvailabilityCheck(userId, bookId) ==
  IF bookId \notin DOMAIN books THEN "BookNotFound"
  ELSE IF userId \notin UserIds THEN "MemberNotFound"
  ELSE IF currentBorrowedCount(userId)
            >= getBorrowingLimit(users[userId].membershipType) THEN "LimitReached"
  ELSE IF existingTransaction(userId, bookId) THEN "AlreadyBorrowed"
  ELSE "Borrowed"

\* BorrowOutcome looking for the caller's own loan of the book before it
\* looks at the book's availability.
BorrowOutcome_DuplicateFirst(userId, bookId) ==
  IF bookId \notin DOMAIN books THEN "BookNotFound"
  ELSE IF existingTransaction(userId, bookId) THEN "AlreadyBorrowed"
  ELSE IF books[bookId].availableQuantity <= 0 THEN "Unavailable"
  ELSE IF userId \notin UserIds THEN "MemberNotFound"
  ELSE IF currentBorrowedCount(userId)
            >= getBorrowingLimit(users[userId].membershipType) THEN "LimitReached"
  ELSE "Borrowed"

\* Outcome of the checks of POST /borrow, in the order the handler makes them.
BorrowOutcome(userId, bookId) ==
  IF bookId \notin DOMAIN books THEN "BookNotFound"
  ELSE IF books[bookId].availableQuantity <= 0 THEN "Unavailable"
  ELSE IF userId \notin UserIds THEN "MemberNotFound"
  ELSE IF currentBorrowedCount(userId)
            >= getBorrowingLimit(users[userId].membershipType) THEN "LimitReached"
  ELSE IF existingTransaction(userId, bookId) THEN "AlreadyBorrowed"
  ELSE "Borrowed"

StatusOf(kind) ==
  CASE kind \in {"BookNotFound", "MemberNotFound", "TransactionNotFound"} -> 404
    [] kind = "Forbidden" -> 403
    [] kind = "InternalError" -> 500
    [] kind = "Borrowed" -> 201
    [] kind \in {"Returned", "Renewed"} -> 200
    [] OTHER -> 400

\* The response the handler sends.
Reply(kind) == [status |-> StatusOf(kind), kind |-> kind]

\* BorrowHandler that records the loan and leaves the book's counter alone.
BorrowHandler_NoDecrement(userId, bookId) ==
  LET kind == BorrowOutcome(userId, bookId) IN
  /\ response' = Reply(kind)
  /\ transactions' =
       IF kind = "Borrowed"
       THEN Append(transactions,
               [ _id |-> Len(transactions) + 1, userId |-> userId,
                 bookId |-> bookId, borrowDate |-> now,
                 dueDate |-> calculateDueDate(now, users[userId].membershipType),
                 returnDate |-> NoDate, status |-> "BORROWED",
                 lateFee |-> 0, renewalCount |-> 0 ])
       ELSE transactions
  /\ UNCHANGED <<books, now>>

\* BorrowHandler that takes the copy as soon as the book is found available,
\* before the member checks.
BorrowHandler_ReserveFirst(userId, bookId) ==
  LET kind == BorrowOutcome(userId, bookId) IN
  /\ response' = Reply(kind)
  /\ transactions' =
       IF kind = "Borrowed"
       THEN Append(transactions,
               [ _id |-> Len(transactions) + 1, userId |-> userId,
                 bookId |-> bookId, borrowDate |-> now,
                 dueDate |-> calculateDueDate(now, users[userId].membershipType),
                 returnDate |-> NoDate, status |-> "BORROWED",
                 lateFee |-> 0, renewalCount |-> 0 ])
       ELSE transactions
  /\ books' =
       IF kind \notin {"BookNotFound", "Unavailable"}
       THEN [books EXCEPT ![bookId].availableQuantity = @ - 1]
       ELSE books
  /\ UNCHANGED now

\* POST /api/transactions/borrow
BorrowHandler(userId, bookId) ==
  LET kind == BorrowOutcome(userId, bookId) IN
  /\ response' = Reply(kind)
  /\ IF kind = "Borrowed"
     THEN /\ transactions' = Append(transactions,
               [ _id |-> Len(transactions) + 1, userId |-> userId,
                 bookId |-> bookId, borrowDate |-> now,
                 dueDate |-> calculateDueDate(now, users[userId].membershipType),
                 returnDate |-> NoDate, status |-> "BORROWED",
                 lateFee |-> 0, renewalCount |-> 0 ])
          /\ books' = [books EXCEPT ![bookId].availableQuantity = @ - 1]
     ELSE UNCHANGED <<transactions, books>>
  /\ UNCHANGED now

\* ReturnOutcome without the check for a transaction returned before.
ReturnOutcome_NoReturnedCheck(userId, transactionId) ==
  LET i == FindIndex(transactionId) IN
  IF i = 0 THEN "TransactionNotFound"
  ELSE IF transactions[i].userId # userId THEN "Forbidden"
  ELSE "Returned"

\* Outcome of the checks of POST /return.
ReturnOutcome(userId, transactionId) ==
  LET i == FindIndex(transactionId) IN
  IF i = 0 THEN "TransactionNotFound"
  ELSE IF transactions[i].userId # userId THEN "Forbidden"
  ELSE IF transactions[i].status = "RETURNED" THEN "AlreadyReturned"
  ELSE "Returned"

\* ReturnHandler that gives the copy back only for a return made on time.
ReturnHandler_NoReleaseWhenLate(userId, transactionId) ==
  LET kind == ReturnOutcome(userId, transactionId)
      i    == FindIndex(transactionId)
  IN
  /\ response' = Reply(kind)
  /\ IF kind = "Returned"
     THEN /\ transactions' = [transactions EXCEPT
               ![i].returnDate = now,
               ![i].status = "RETURNED",
               ![i].lateFee = calculateLateFee(transactions[i].dueDate, now)]
          /\ books' = IF /\ transactions[i].bookId \in DOMAIN books
                         /\ now <= transactions[i].dueDate
                      THEN [books EXCEPT
                              ![transactions[i].bookId].availableQuantity = @ + 1]
                      ELSE books
     ELSE UNCHANGED <<transactions, books>>
  /\ UNCHANGED now

\* POST /api/transactions/return
ReturnHandler(userId, transactionId) ==
  LET kind == ReturnOutcome(userId, transactionId)
      i    == FindIndex(transactionId)
  IN
  /\ response' = Reply(kind)
  /\ IF kind = "Returned"
     THEN /\ transactions' = [transactions EXCEPT
               ![i].returnDate = now,
               ![i].status = "RETURNED",
               ![i].lateFee = calculateLateFee(transactions[i].dueDate, now)]
          /\ books' = IF transactions[i].bookId \in DOMAIN books
                      THEN [books EXCEPT
                              ![transactions[i].bookId].availableQuantity = @ + 1]
                      ELSE books
     ELSE UNCHANGED <<transactions, books>>
  /\ UNCHANGED now

\* RenewOutcome looking at the status before it looks at the owner.
RenewOutcome_StatusFirst(userId, transactionId) ==
  LET i == FindIndex(transactionId) IN
  IF i = 0 THEN "TransactionNotFound"
  ELSE IF ~isBorrowed(transactions[i]) THEN "NotRenewable"
  ELSE IF transactions[i].userId # userId THEN "Forbidden"
  ELSE IF transactions[i].renewalCount >= 3 THEN "RenewalLimitReached"
  ELSE IF transactions[i].dueDate < now THEN "Overdue"
  ELSE "Renewed"

\* RenewOutcome looking at the due date before it looks at renewalCount.
RenewOutcome_OverdueFirst(userId, transactionId) ==
  LET i == FindIndex(transactionId) IN
  IF i = 0 THEN "TransactionNotFound"
  ELSE IF transactions[i].userId # userId THEN "Forbidden"
  ELSE IF ~isBorrowed(transactions[i]) THEN "NotRenewable"
  ELSE IF transactions[i].dueDate < now THEN "Overdue"
  ELSE IF transactions[i].renewalCount >= 3 THEN "RenewalLimitReached"
  ELSE "Renewed"

\* RenewOutcome that lets a transaction with 3 renewals through.
RenewOutcome_LimitOffByOne(userId, transactionId) ==
  LET i == FindIndex(transactionId) IN
  IF i = 0 THEN "TransactionNotFound"
  ELSE IF transactions[i].userId # userId THEN "Forbidden"
  ELSE IF ~isBorrowed(transactions[i]) THEN "NotRenewable"
  ELSE IF transactions[i].renewalCount > 3 THEN "RenewalLimitReached"
  ELSE IF transactions[i].dueDate < now THEN "Overdue"
  ELSE "Renewed"

\* RenewOutcome without the check for an overdue loan.
RenewOutcome_NoOverdueCheck(userId, transactionId) ==
  LET i == FindIndex(transactionId) IN
  IF i = 0 THEN "TransactionNotFound"
  ELSE IF transactions[i].userId # userId THEN "Forbidden"
  ELSE IF ~isBorrowed(transactions[i]) THEN "NotRenewable"
  ELSE IF transactions[i].renewalCount >= 3 THEN "RenewalLimitReached"
  ELSE "Renewed"

\* RenewOutcome without the check that the loan is still open.
RenewOutcome_NoStatusCheck(userId, transactionId) ==
  LET i == FindIndex(transactionId) IN
  IF i = 0 THEN "TransactionNotFound"
  ELSE IF transactions[i].userId # userId THEN "Forbidden"
  ELSE IF transactions[i].renewalCount >= 3 THEN "RenewalLimitReached"
  ELSE IF transactions[i].dueDate < now THEN "Overdue"
  ELSE "Renewed"

\* Outcome of the checks of POST /:id/renew.  After the checks the handler
\* reads user.membershipType of the member it finds for the caller: when it
\* finds none the read throws and the catch block answers 500.
RenewOutcome(userId, transactionId) ==
  LET i == FindIndex(transactionId) IN
  IF i = 0 THEN "TransactionNotFound"
  ELSE IF transactions[i].userId # userId THEN "Forbidden"
  ELSE IF ~isBorrowed(transactions[i]) THEN "NotRenewable"
  ELSE IF transactions[i].renewalCount >= 3 THEN "RenewalLimitReached"
  ELSE IF transactions[i].dueDate < now THEN "Overdue"
  ELSE IF userId \notin UserIds THEN "InternalError"
  ELSE "Renewed"

\* RenewHandler that extends the loan from the current instant.
RenewHandler_FromNow(userId, transactionId) ==
  LET kind == RenewOutcome(userId, transactionId)
      i    == FindIndex(transactionId)
  IN
  /\ response' = Reply(kind)
  /\ IF kind = "Renewed"
     THEN transactions' = [transactions EXCEPT
               ![i].dueDate = calculateDueDate(now, users[userId].membershipType),
               ![i].renewalCount = @ + 1]
     ELSE UNCHANGED transactions
  /\ UNCHANGED <<books, now>>

\* POST /api/transactions/:id/renew
RenewHandler(userId, transactionId) ==
  LET kind == RenewOutcome(userId, transactionId)
      i    == FindIndex(transactionId)
  IN
  /\ response' = Reply(kind)
  /\ IF kind = "Renewed"
     THEN transactions' = [transactions EXCEPT
               ![i].dueDate = calculateDueDate(transactions[i].dueDate,
                                               users[userId].membershipType),
               ![i].renewalCount = @ + 1]
     ELSE UNCHANGED transactions
  /\ UNCHANGED <<books, now>>

\* ------------------------------------------------------ the bounded runs
\* Number of RETURNED transactions among the first n of store s.
RECURSIVE ReturnedCount(_, _)
ReturnedCount(s, n) ==
  IF n = 0 THEN 0
  ELSE (IF s[n].status = "RETURNED" THEN 1 ELSE 0) + ReturnedCount(s, n - 1)

\* Sum of renewalCount over the first n transactions of store s.
RECURSIVE TotalRenewals(_, _)
TotalRenewals(s, n) ==
  IF n = 0 THEN 0 ELSE s[n].renewalCount + TotalRenewals(s, n - 1)

\* Requests that have succeeded so far: every successful Borrow adds a
\* transaction, every successful Return a RETURNED status, every successful
\* Renew a renewal.
BorrowsDone == Len(transactions) - Len(InitTransactions)
ReturnsDone ==
  ReturnedCount(transactions, Len(transactions))
    - ReturnedCount(InitTransactions, Len(InitTransactions))
RenewalsDone ==
  TotalRenewals(transactions, Len(transactions))
    - TotalRenewals(InitTransactions, Len(InitTransactions))
OpsDone == BorrowsDone + ReturnsDone + RenewalsDone

Borrow(userId, bookId) ==
  /\ BorrowHandler(userId, bookId)
  /\ BorrowOutcome(userId, bookId) = "Borrowed" => OpsDone < MaxOps
  /\ UNCHANGED <<catalogue, inflight>>

Return(userId, transactionId) ==
  /\ ReturnHandler(userId, transactionId)
  /\ ReturnOutcome(userId, transactionId) = "Returned" => OpsDone < MaxOps
  /\ UNCHANGED <<catalogue, inflight>>

Renew(userId, transactionId) ==
  /\ RenewHandler(userId, transactionId)
  /\ RenewOutcome(userId, transactionId) = "Renewed" => OpsDone < MaxOps
  /\ UNCHANGED <<catalogue, inflight>>

\* The system clock moves on to a later instant.
Tick ==
  /\ \E t \in ClockInstants : t > now /\ now' = t
  /\ UNCHANGED <<books, transactions, response, catalogue, inflight>>

Next ==
  \/ \E userId \in Callers, bookId \in RequestBookIds : Borrow(userId, bookId)
  \/ \E userId \in Callers, transactionId \in RequestTransIds :
       Return(userId, transactionId)
  \/ \E userId \in Callers, transactionId \in RequestTransIds :
       Renew(userId, transactionId)
  \/ Tick

Spec == Init /\ [][Next]_vars

LedgerBorrow(userId, bookId) ==
  /\ BorrowHandler(userId, bookId)
  /\ BorrowOutcome(userId, bookId) = "Borrowed" => BorrowsDone < MaxLedgerBorrows
  /\ UNCHANGED <<catalogue, inflight>>

LedgerReturn(userId, transactionId) ==
  /\ ReturnHandler(userId, transactionId)
  /\ ReturnOutcome(userId, transactionId) = "Returned" =>
       ReturnsDone < MaxLedgerReturns
  /\ UNCHANGED <<catalogue, inflight>>

\* Borrow and return requests only, at a fixed instant.
LedgerNext ==
  \/ \E userId \in Callers, bookId \in RequestBookIds : LedgerBorrow(userId, bookId)
  \/ \E userId \in Callers, transactionId \in RequestTransIds :
       LedgerReturn(userId, transactionId)

LedgerSpec == Init /\ [][LedgerNext]_vars

\* Instants the clock visits under RenewSpec: trans1's due date, its due date
\* after one, two and three renewals, and one tick past each of these.
RenewClockInstants ==
  { StartNow + k * Day(borrowPeriods("PREMIUM")) + e : k \in 0 .. 3, e \in 0 .. 1 }

RenewReturn(userId, transactionId) ==
  /\ ReturnHandler(userId, transactionId)
  /\ UNCHANGED <<catalogue, inflight>>

RenewRenew(userId, transactionId) ==
  /\ RenewHandler(userId, transactionId)
  /\ RenewOutcome(userId, transactionId) = "Renewed" => RenewalsDone < MaxRenewals
  /\ UNCHANGED <<catalogue, inflight>>

RenewTick ==
  /\ \E t \in RenewClockInstants : t > now /\ now' = t
  /\ UNCHANGED <<books, transactions, response, catalogue, inflight>>

RenewNext ==
  \/ \E userId \in Callers, transactionId \in RequestTransIds :
       RenewReturn(userId, transactionId)
  \/ \E userId \in Callers, transactionId \in RequestTransIds :
       RenewRenew(userId, transactionId)
  \/ RenewTick

\* Return and renew requests with a clock that runs long enough for a
\* transaction to be renewed three times and then fall overdue.
RenewSpec == Init /\ [][RenewNext]_vars

\* Instants at which FeeSpec evaluates a return: from one day before trans1's
\* due date to MaxFeeDays days after it, tick by tick.
FeeInstants ==
  (Day(Trans1DueDay) - TicksPerDay) .. (Day(Trans1DueDay) + Day(MaxFeeDays))

\* The engine at any of these instants.
FeeInit ==
  /\ books = InitBooks
  /\ transactions = InitTransactions
  /\ now \in FeeInstants
  /\ response = [status |-> 0, kind |-> "none"]
  /\ catalogue = InitCatalogue
  /\ inflight = {}

FeeReturn(userId, transactionId) ==
  /\ ReturnHandler(userId, transactionId)
  /\ UNCHANGED <<catalogue, inflight>>

FeeNext ==
  \E userId \in Callers, transactionId \in RequestTransIds :
    FeeReturn(userId, transactionId)

\* Return requests at an instant drawn from FeeInstants: calculateLateFee
\* applied to (dueDate, now).
FeeSpec == FeeInit /\ [][FeeNext]_vars

\* Every copy of the borrowing-limit lookup applied to one membership type.
PolicyLimit(membershipType) ==
  /\ response' =
       [ status |-> 200, kind |-> "borrowingLimit",
         membershipType |-> membershipType,
         transactionsRoute |-> getBorrowingLimit(membershipType),
         usersRoute |-> usersRoute_getBorrowingLimit(membershipType),
         userModel |-> User_borrowingLimit(membershipType) ]
  /\ UNCHANGED <<books, transactions, now, catalogue, inflight>>

\* Every copy of the due-date calculation applied to a loan made now by a
\* member of one membership type.
PolicyDueDate(membershipType) ==
  /\ response' =
       [ status |-> 200, kind |-> "dueDate",
         membershipType |-> membershipType,
         borrowDate |-> now,
         transactionsRoute |-> calculateDueDate(now, membershipType),
         transactionModel |-> Transaction_setDueDate(now, membershipType) ]
  /\ UNCHANGED <<books, transactions, now, catalogue, inflight>>

PolicyNext ==
  \E membershipType \in MembershipTypes :
    \/ PolicyLimit(membershipType)
    \/ PolicyDueDate(membershipType)

\* The policy lookups applied to every membership type at an instant drawn
\* from FeeInstants.
PolicySpec == FeeInit /\ [][PolicyNext]_vars

\* The server receives a request: it is in flight until its handler runs.
\* id numbers the requests in the order of their arrival.
Submit(op, userId, arg) ==
  /\ Cardinality(inflight) < MaxInflight
  /\ inflight' = inflight \cup
       { [ id |-> Cardinality(inflight) + 1, op |-> op, userId |-> userId,
           arg |-> arg, reply |-> "pending" ] }
  /\ UNCHANGED <<books, transactions, now, response, catalogue>>

\* Serve that takes no copy from the counter when a Borrow succeeds.
Serve_BorrowWithoutDecrement(r) ==
  /\ r.reply = "pending"
  /\ CASE r.op = "borrow" ->
            LET kind == BorrowOutcome(r.userId, r.arg) IN
            /\ response' = Reply(kind)
            /\ transactions' =
                 IF kind = "Borrowed"
                 THEN Append(transactions,
                        [ _id |-> Len(transactions) + 1, userId |-> r.userId,
                          bookId |-> r.arg, borrowDate |-> now,
                          dueDate |-> calculateDueDate(now,
                                        users[r.userId].membershipType),
                          returnDate |-> NoDate, status |-> "BORROWED",
                          lateFee |-> 0, renewalCount |-> 0 ])
                 ELSE transactions
            /\ UNCHANGED <<books, now>>
         [] r.op = "return" -> ReturnHandler(r.userId, r.arg)
         [] r.op = "renew"  -> RenewHandler(r.userId, r.arg)
  /\ inflight' = (inflight \ {r}) \cup {[r EXCEPT !.reply = response'.kind]}
  /\ UNCHANGED catalogue

\* The event loop runs one request in flight: authenticateToken, validate and
\* the route handler are synchronous (no await, no callback), so the checks
\* and the writes of the handler run to completion before any other request
\* is looked at.  The requests in flight are served in any order.
Serve(r) ==
  /\ r.reply = "pending"
  /\ CASE r.op = "borrow" -> BorrowHandler(r.userId, r.arg)
         [] r.op = "return" -> ReturnHandler(r.userId, r.arg)
         [] r.op = "renew"  -> RenewHandler(r.userId, r.arg)
  /\ inflight' = (inflight \ {r}) \cup {[r EXCEPT !.reply = response'.kind]}
  /\ UNCHANGED catalogue

ConcNext ==
  \/ \E userId \in Callers, bookId \in RequestBookIds :
       Submit("borrow", userId, bookId)
  \/ \E userId \in Callers, transactionId \in 0 .. Len(transactions) + 1 :
       Submit("return", userId, transactionId)
  \/ \E userId \in Callers, transactionId \in 0 .. Len(transactions) + 1 :
       Submit("renew", userId, transactionId)
  \/ \E r \in inflight : Serve(r)

\* Requests arriving at any time and served in any order.
ConcSpec == Init /\ [][ConcNext]_vars

\* ------------------------------------------------------- catalogue route
\* Value of a body property the request does not carry.
Absent == -1

\* bookValidation.create, for the properties modelled: ISBN required,
\* totalQuantity an integer >= 1, availableQuantity optional, an integer >= 0.
bookValidation_create(body) ==
  /\ body.ISBN # Absent
  /\ body.totalQuantity # Absent /\ body.totalQuantity >= 1
  /\ body.availableQuantity # Absent => body.availableQuantity >= 0

\* bookValidation.update: every property optional (a body with none of the
\* three modelled ones carries another, such as title).
bookValidation_update(body) ==
  /\ body.totalQuantity # Absent => body.totalQuantity >= 1
  /\ body.availableQuantity # Absent => body.availableQuantity >= 0

\* Quantities a request body may carry: the least totalQuantity the
\* validation accepts, and the one below it.
RequestQuantities == {0, 1}

\* Request bodies: the ISBN of the first initial book or an ISBN no initial
\* book has, a quantity of RequestQuantities, any property possibly missing.
CatalogueBodies ==
  [ ISBN : {Absent, InitCatalogue[1].ISBN, Len(InitCatalogue) + 1},
    totalQuantity : {Absent} \cup RequestQuantities,
    availableQuantity : {Absent} \cup RequestQuantities ]

\* Index of the first catalogue book at or after position i with this _id;
\* 0 when there is none.
RECURSIVE BookIndexFrom(_, _)
BookIndexFrom(id, i) ==
  IF i > Len(catalogue) THEN 0
  ELSE IF catalogue[i]._id = id THEN i
  ELSE BookIndexFrom(id, i + 1)

\* books.findIndex(b => b._id === req.params.id); 0 when none.
BookIndex(id) == BookIndexFrom(id, 1)

\* a || b for numbers and a missing value.
OrElse(a, b) == IF a = Absent \/ a = 0 THEN b ELSE a

\* s with its element at position i removed: books.splice(i, 1).
Splice(s, i) == SubSeq(s, 1, i - 1) \o SubSeq(s, i + 1, Len(s))

\* Elements of a sequence.
Range(s) == {s[i] : i \in 1 .. Len(s)}

\* Number of books by which catalogue c differs from the initial one: the
\* initial books it lacks or the other books it holds, whichever are more.
CatalogueEdits(c) ==
  LET missing == Cardinality(Range(InitCatalogue) \ Range(c))
      extra   == Len(c) - Cardinality(Range(InitCatalogue) \cap Range(c))
  IN IF missing >= extra THEN missing ELSE extra

\* _id values a request may name: the _id of a book at any position, and one
\* further.
RequestCatalogueIds == 1 .. Len(catalogue) + 1

\* POST /api/books
AddBook(body) ==
  /\ IF ~bookValidation_create(body)
     THEN /\ response' = [status |-> 400, kind |-> "ValidationFailed"]
          /\ UNCHANGED catalogue
     ELSE IF \E i \in 1 .. Len(catalogue) : catalogue[i].ISBN = body.ISBN
     THEN /\ response' = [status |-> 409, kind |-> "IsbnExists"]
          /\ UNCHANGED catalogue
     ELSE /\ response' = [status |-> 201, kind |-> "BookCreated"]
          /\ catalogue' = Append(catalogue,
               [ _id |-> Len(catalogue) + 1, ISBN |-> body.ISBN,
                 totalQuantity |-> body.totalQuantity,
                 availableQuantity |->
                   OrElse(body.availableQuantity, body.totalQuantity) ])
  /\ CatalogueEdits(catalogue') <= MaxCatalogueEdits \/ catalogue' = catalogue
  /\ UNCHANGED <<books, transactions, now, inflight>>

\* PUT /api/books/:id
UpdateBook(id, body) ==
  LET i == BookIndex(id) IN
  /\ IF ~bookValidation_update(body)
     THEN /\ response' = [status |-> 400, kind |-> "ValidationFailed"]
          /\ UNCHANGED catalogue
     ELSE IF i = 0
     THEN /\ response' = [status |-> 404, kind |-> "BookNotFound"]
          /\ UNCHANGED catalogue
     ELSE IF /\ body.ISBN # Absent
             /\ \E j \in 1 .. Len(catalogue) :
                  catalogue[j].ISBN = body.ISBN /\ catalogue[j]._id # id
     THEN /\ response' = [status |-> 409, kind |-> "IsbnExists"]
          /\ UNCHANGED catalogue
     ELSE /\ response' = [status |-> 200, kind |-> "BookUpdated"]
          /\ catalogue' = [catalogue EXCEPT ![i] =
               [ _id |-> @._id,
                 ISBN |-> IF body.ISBN # Absent THEN body.ISBN ELSE @.ISBN,
                 totalQuantity |->
                   IF body.totalQuantity # Absent
                   THEN body.totalQuantity ELSE @.totalQuantity,
                 availableQuantity |->
                   IF body.availableQuantity # Absent
                   THEN body.availableQuantity ELSE @.availableQuantity ]]
  /\ CatalogueEdits(catalogue') <= MaxCatalogueEdits \/ catalogue' = catalogue
  /\ UNCHANGED <<books, transactions, now, inflight>>

\* DELETE /api/books/:id
DeleteBook(id) ==
  LET i == BookIndex(id) IN
  /\ IF i = 0
     THEN /\ response' = [status |-> 404, kind |-> "BookNotFound"]
          /\ UNCHANGED catalogue
     ELSE /\ response' = [status |-> 200, kind |-> "BookDeleted"]
          /\ catalogue' = Splice(catalogue, i)
  /\ CatalogueEdits(catalogue') <= MaxCatalogueEdits \/ catalogue' = catalogue
  /\ UNCHANGED <<books, transactions, now, inflight>>

CatalogueNext ==
  \/ \E body \in CatalogueBodies : AddBook(body)
  \/ \E id \in RequestCatalogueIds, body \in CatalogueBodies : UpdateBook(id, body)
  \/ \E id \in RequestCatalogueIds : DeleteBook(id)

\* The catalogue route: add, update and delete requests in any order.
CatalogueSpec == Init /\ [][CatalogueNext]_vars

\* ------------------------------------------------ availability of a book
\* `book${n}`: the id string the catalogue's _id n stands for.
BookName(n) == "book" \o ToString(n)

\* GET /api/books/:id/availability: reads the catalogue route's array.
CheckAvailability(id) ==
  LET i == BookIndex(id) IN
  /\ response' =
       IF i = 0 THEN [status |-> 404, kind |-> "BookNotFound"]
       ELSE [ status |-> 200, kind |-> "Availability",
              bookId |-> BookName(catalogue[i]._id),
              isAvailable |-> catalogue[i].availableQuantity > 0,
              availableQuantity |-> catalogue[i].availableQuantity,
              totalQuantity |-> catalogue[i].totalQuantity ]
  /\ UNCHANGED <<books, transactions, now, catalogue, inflight>>

\* bookId values a Borrow request may carry when the catalogue is in use:
\* those of RequestBookIds and the id of every book of the catalogue.
AvailabilityBookIds ==
  RequestBookIds \cup {BookName(catalogue[i]._id) : i \in 1 .. Len(catalogue)}

AvailabilityNext ==
  \/ \E userId \in Callers, bookId \in AvailabilityBookIds : Borrow(userId, bookId)
  \/ \E userId \in Callers, transactionId \in RequestTransIds :
       Return(userId, transactionId)
  \/ \E body \in CatalogueBodies : AddBook(body)
  \/ \E id \in RequestCatalogueIds : CheckAvailability(id)

\* Borrow and return requests to the engine, add-book and check-availability
\* requests to the catalogue route, in any order.
AvailabilitySpec == Init /\ [][AvailabilityNext]_vars

\* ------------------------------------------------- list of transactions
\* status values a list request may carry in its query string; "undefined"
\* when it carries none.
StatusFilters == {"undefined", "BORROWED", "RETURNED", "OVERDUE"}

\* validateQuery(paginationSchema) for a query string without page, limit,
\* sortBy and sortOrder: Joi validates with stripUnknown and req.query becomes
\* the validated value, so page, limit and sortOrder take the schema's
\* defaults and every property the schema does not list, status among them,
\* is removed.
validateQuery_paginationSchema(query) ==
  [ page |-> 1, limit |-> 10, sortBy |-> "undefined", sortOrder |-> "asc",
    status |-> "undefined" ]

\* t placed into s, which is in ascending order of borrowDate, behind every
\* element that is not later than t.
InsertByBorrowDate(t, s) ==
  LET k == Cardinality({i \in 1 .. Len(s) : s[i].borrowDate <= t.borrowDate})
  IN SubSeq(s, 1, k) \o <<t>> \o SubSeq(s, k + 1, Len(s))

\* s.sort((a, b) => aValue - bValue) on borrowDate: ascending and stable.
RECURSIVE SortAscending(_)
SortAscending(s) ==
  IF s = << >> THEN << >>
  ELSE InsertByBorrowDate(s[Len(s)], SortAscending(SubSeq(s, 1, Len(s) - 1)))

\* s in reverse order.
Reverse(s) == [i \in 1 .. Len(s) |-> s[Len(s) + 1 - i]]

\* s.sort((a, b) => bValue - aValue) on borrowDate: descending and stable.
SortDescending(s) == Reverse(SortAscending(Reverse(s)))

Max(a, b) == IF a >= b THEN a ELSE b

\* The transaction as the list shows it: status OVERDUE for a BORROWED
\* transaction whose due date has passed.  The store keeps its record.
UpdateOverdueStatus(t) ==
  IF t.status = "BORROWED" /\ t.dueDate < now
  THEN [t EXCEPT !.status = "OVERDUE"] ELSE t

\* daysOverdue of a listed transaction.
ListedDaysOverdue(t) ==
  IF t.status \in {"OVERDUE", "RETURNED"}
  THEN Max(0, CeilDiv((IF t.returnDate # NoDate THEN t.returnDate ELSE now)
                        - t.dueDate, TicksPerDay))
  ELSE 0

\* The transactions the list handler sends for this caller and query.
ListedTransactions(userId, query) ==
  LET OfCaller(t)  == t.userId = userId
      HasStatus(t) == t.status = query.status
      own       == SelectSeq(transactions, OfCaller)
      filtered  == IF query.status # "undefined" THEN SelectSeq(own, HasStatus)
                   ELSE own
      displayed == [i \in 1 .. Len(filtered) |-> UpdateOverdueStatus(filtered[i])]
      sorted    == IF query.sortOrder = "desc" THEN SortDescending(displayed)
                   ELSE SortAscending(displayed)
      paginated == SubSeq(sorted, (query.page - 1) * query.limit + 1,
                          Min(Len(sorted), query.page * query.limit))
  IN [i \in 1 .. Len(paginated) |->
        [ _id |-> paginated[i]._id, userId |-> paginated[i].userId,
          bookId |-> paginated[i].bookId, status |-> paginated[i].status,
          dueDate |-> paginated[i].dueDate,
          daysOverdue |-> ListedDaysOverdue(paginated[i]) ]]

\* GET /api/transactions, behind validateQuery(paginationSchema).  The token
\* carries no role, so the caller sees their own transactions only.
ListTransactions(userId, query) ==
  /\ response' = [ status |-> 200, kind |-> "Listed",
                   transactions |->
                     ListedTransactions(userId,
                                        validateQuery_paginationSchema(query)) ]
  /\ UNCHANGED <<books, transactions, now, catalogue, inflight>>

ListNext ==
  \/ Next
  \/ \E userId \in Callers, status \in StatusFilters :
       ListTransactions(userId, [status |-> status])

\* The engine's requests and list requests, in any order.
ListSpec == Init /\ [][ListNext]_vars

\* --------------------------------------------------- the Transaction model
\* transactionSchema.virtual('daysOverdue') of a document, read at instant
\* today.
Transaction_daysOverdue(doc, today) ==
  IF doc.status = "RETURNED" \/ doc.dueDate = NoDate THEN 0
  ELSE Max(0, CeilDiv(today - doc.dueDate, TicksPerDay))

\* transactionSchema.virtual('isOverdue')
Transaction_isOverdue(doc, today) ==
  Transaction_daysOverdue(doc, today) > 0 /\ doc.status = "BORROWED"

\* transactionSchema.methods.calculateLateFee, in cents.
Transaction_calculateLateFee(doc, today) ==
  LET daysOverdue == Transaction_daysOverdue(doc, today) IN
  IF daysOverdue <= 0 THEN 0 ELSE Min(daysOverdue * 50, 2500)

\* transactionSchema.pre('save'): the document as it is stored.
Transaction_preSave(doc, today) ==
  LET marked == IF Transaction_isOverdue(doc, today) /\ doc.status = "BORROWED"
                THEN [doc EXCEPT !.status = "OVERDUE"] ELSE doc
  IN IF marked.status \in {"OVERDUE", "RETURNED"}
     THEN [marked EXCEPT !.lateFee = Transaction_calculateLateFee(marked, today)]
     ELSE marked

\* A transaction of the store is saved through the Transaction model, the
\* schema of the stored transactions: its pre-save hook runs on the document.
SaveTransaction(i) ==
  /\ transactions' = [transactions EXCEPT ![i] = Transaction_preSave(@, now)]
  /\ UNCHANGED <<books, now, response, catalogue, inflight>>

SaveNext ==
  \/ Next
  \/ \E i \in TransIdx : SaveTransaction(i)

\* The engine's requests, and saves of stored transactions through the
\* Transaction model, in any order.
SaveSpec == Init /\ [][SaveNext]_vars

\* ------------------------------------------------------------ users route
\* The users route's own member array.  No handler writes borrowedBooks.
usersRoute_users ==
  [ user1 |-> [membershipType |-> "PREMIUM", borrowedBooks |-> << >>],
    user2 |-> [membershipType |-> "STUDENT", borrowedBooks |-> << >>],
    user3 |-> [membershipType |-> "BASIC",   borrowedBooks |-> << >>] ]

\* Member ids a users-route request may name: every caller's and one that
\* matches no member.
RequestUserIds == Callers \cup {"user9"}

\* The borrowing figures both handlers report for a member record.
usersRoute_stats(user) ==
  [ borrowingLimit |-> usersRoute_getBorrowingLimit(user.membershipType),
    currentBorrowedCount |-> Len(user.borrowedBooks),
    canBorrowMore |->
      Len(user.borrowedBooks) < usersRoute_getBorrowingLimit(user.membershipType) ]

\* Answer of a users-route read of member id by caller callerId (whose token
\* carries no role).
usersRoute_read(callerId, id, kind) ==
  IF id \notin DOMAIN usersRoute_users
  THEN [status |-> 404, kind |-> "UserNotFound"]
  ELSE IF callerId # id
  THEN [status |-> 403, kind |-> "Forbidden"]
  ELSE [ status |-> 200, kind |-> kind, userId |-> id,
         stats |-> usersRoute_stats(usersRoute_users[id]) ]

\* GET /api/users/:id
GetUser(callerId, id) ==
  /\ response' = usersRoute_read(callerId, id, "Profile")
  /\ UNCHANGED <<books, transactions, now, catalogue, inflight>>

\* GET /api/users/:id/borrowed-books
GetBorrowedBooks(callerId, id) ==
  /\ response' = usersRoute_read(callerId, id, "BorrowedBooks")
  /\ UNCHANGED <<books, transactions, now, catalogue, inflight>>

UsersNext ==
  \/ Next
  \/ \E callerId \in Callers, id \in RequestUserIds : GetUser(callerId, id)
  \/ \E callerId \in Callers, id \in RequestUserIds : GetBorrowedBooks(callerId, id)

\* The engine's requests and the users route's reads, in any order.
UsersSpec == Init /\ [][UsersNext]_vars

\* ------------------------------------------------------------- properties
\* Active (not RETURNED) transactions of a member, and of a member on a book.
ActiveOf(userId) ==
  {i \in TransIdx : transactions[i].userId = userId
                      /\ transactions[i].status # "RETURNED"}

ActiveOn(userId, bookId) ==
  {i \in ActiveOf(userId) : transactions[i].bookId = bookId}

\* C1: after any sequence of Borrow and Return calls, successful or failing,
\* by any callers, every book has 0 <= availableQuantity <= totalQuantity.
C1_AvailableWithinTotal ==
  \A b \in DOMAIN books :
    /\ 0 <= books[b].availableQuantity
    /\ books[b].availableQuantity <= books[b].totalQuantity

\* A book has run out of copies after borrows, and a return has been made.
C1_Witness ==
  /\ books["book3"].availableQuantity = 0
  /\ books["book2"].availableQuantity = 0
  /\ ReturnsDone = 1

C3_OneActivePerUserAndBook ==
  \A u \in Callers, b \in RequestBookIds : Cardinality(ActiveOn(u, b)) <= 1

\* A member who holds the book asked for it again and was refused, while
\* holding exactly one loan on it.
C3_Witness ==
  /\ response.kind = "AlreadyBorrowed"
  /\ BorrowsDone >= 1
  /\ \E u \in UserIds, b \in BookIds : Cardinality(ActiveOn(u, b)) = 1

\* C4: two Return calls by the owner on the same transaction, with any other
\* operations in between: the first succeeds and adds one to the book's
\* availableQuantity, the second fails with AlreadyReturned and changes
\* nothing.  A Return by the owner of an open transaction succeeds and
\* adds exactly one; a RETURNED transaction stays RETURNED under every step;
\* a Return by the owner of a RETURNED transaction is refused and leaves
\* books and transactions as they were.
C4_ReturnTwice ==
  [][ /\ \A i \in TransIdx :
           transactions[i].status = "RETURNED" =>
             /\ i <= Len(transactions')
             /\ transactions'[i].status = "RETURNED"
      /\ \A c \in Callers, id \in RequestTransIds :
           LET i == FindIndex(id) IN
           (i # 0 /\ transactions[i].userId = c /\ Return(c, id)) =>
             IF transactions[i].status = "RETURNED"
             THEN /\ response'.kind = "AlreadyReturned"
                  /\ UNCHANGED <<books, transactions>>
             ELSE /\ response'.kind = "Returned"
                  /\ transactions'[i].status = "RETURNED"
                  /\ books'[transactions[i].bookId].availableQuantity
                       = books[transactions[i].bookId].availableQuantity + 1
    ]_vars

\* trans1 was returned in this run, its book got exactly one copy back, and
\* the last reply is the refusal of a further Return.
C4_Witness ==
  /\ response.kind = "AlreadyReturned"
  /\ transactions[1].status = "RETURNED"
  /\ BorrowsDone = 0
  /\ books["book1"].availableQuantity = InitBooks["book1"].availableQuantity + 1

\* The first precondition of Borrow that fails, in the order of the claim.
C5_FirstFailing(userId, bookId) ==
  IF bookId \notin BookIds THEN "BookNotFound"
  ELSE IF ~(books[bookId].availableQuantity > 0) THEN "Unavailable"
  ELSE IF userId \notin UserIds THEN "MemberNotFound"
  ELSE IF ~(Cardinality(ActiveOf(userId))
              < getBorrowingLimit(users[userId].membershipType)) THEN "LimitReached"
  ELSE IF ActiveOn(userId, bookId) # {} THEN "AlreadyBorrowed"
  ELSE "Borrowed"

C6_LoanPeriodDays(membershipType) ==
  IF membershipType = "PREMIUM" THEN 30
  ELSE IF membershipType = "STUDENT" THEN 21
  ELSE 14

\* C6: when all five preconditions hold, Borrow succeeds, takes exactly one
\* copy of exactly that book, and appends exactly one transaction with the
\* caller's userId, the bookId, status BORROWED, lateFee 0, renewalCount 0,
\* borrowDate = now and dueDate = borrowDate + the loan period of the
\* member's membershipType (30 days for PREMIUM).
C6_BorrowEffect ==
  [][ \A c \in Callers, b \in RequestBookIds :
        (Borrow(c, b) /\ C5_FirstFailing(c, b) = "Borrowed") =>
          /\ response'.kind = "Borrowed"
          /\ books' = [books EXCEPT ![b].availableQuantity = @ - 1]
          /\ Len(transactions') = Len(transactions) + 1
          /\ SubSeq(transactions', 1, Len(transactions)) = transactions
          /\ LET t == transactions'[Len(transactions')] IN
               /\ t.userId = c
               /\ t.bookId = b
               /\ t.status = "BORROWED"
               /\ t.lateFee = 0
               /\ t.renewalCount = 0
               /\ t.returnDate = NoDate
               /\ t.borrowDate = now
               /\ t.dueDate = t.borrowDate
                     + C6_LoanPeriodDays(users[c].membershipType) * TicksPerDay
    ]_vars

\* The PREMIUM member has just borrowed book2: its last copy is gone and the
\* loan is due 30 days after it was made.
C6_Witness ==
  /\ response.kind = "Borrowed"
  /\ LET t == transactions[Len(transactions)] IN
       /\ t.userId = "user1"
       /\ t.bookId = "book2"
       /\ t.dueDate = t.borrowDate + 30 * TicksPerDay
       /\ t.status = "BORROWED"
  /\ books["book2"].availableQuantity = InitBooks["book2"].availableQuantity - 1

\* C7: a Borrow by a member who exists but whose isActive flag is not true
\* fails with NotFound(Member), creates no transaction and changes no
\* availableQuantity (stated for a request that no other check refuses: the
\* book exists and has a copy, the member is below the limit and does not
\* hold the book).
C7_InactiveMemberRefused ==
  [][ \A c \in UserIds, b \in BookIds :
        (Borrow(c, b) /\ books[b].availableQuantity > 0
           /\ Cardinality(ActiveOf(c)) < getBorrowingLimit(users[c].membershipType)
           /\ ActiveOn(c, b) = {}
           /\ ~Truthy(users[c].isActive)) =>
          /\ response'.kind = "MemberNotFound"
          /\ UNCHANGED <<books, transactions>>
    ]_vars

C9_ReturnEffect ==
  [][ \A c \in Callers, id \in RequestTransIds :
        LET i == FindIndex(id) IN
        (Return(c, id) /\ response'.kind = "Returned") =>
          /\ i # 0
          /\ transactions' = [transactions EXCEPT
                ![i].status = "RETURNED",
                ![i].returnDate = now,
                ![i].lateFee = calculateLateFee(transactions[i].dueDate, now)]
          /\ books' = [books EXCEPT
                ![transactions[i].bookId].availableQuantity = @ + 1]
          /\ (now = transactions[i].dueDate + Day(5) + 1) =>
                transactions'[i].lateFee = 300
          /\ (now <= transactions[i].dueDate) => transactions'[i].lateFee = 0
    ]_vars

\* trans1 was returned inside the sixth day after its due date: fee 3.00,
\* and book1 has one copy more.
C9_Witness ==
  /\ response.kind = "Returned"
  /\ transactions[1].status = "RETURNED"
  /\ transactions[1].returnDate = Day(Trans1DueDay) + Day(5) + 1
  /\ transactions[1].lateFee = 300
  /\ books["book1"].availableQuantity = InitBooks["book1"].availableQuantity + 1

\* C10: for every transaction in the store and every caller who is not its
\* owner, Return and Renew both fail with Forbidden, whatever the
\* transaction's status, renewalCount or due date, and leave the
\* transactions and every book unchanged.
C10_NonOwnerForbidden ==
  [][ \A c \in Callers, id \in RequestTransIds :
        LET i == FindIndex(id) IN
        (i # 0 /\ transactions[i].userId # c /\ (Return(c, id) \/ Renew(c, id))) =>
          /\ response'.kind = "Forbidden"
          /\ response'.status = 403
          /\ UNCHANGED <<books, transactions>>
    ]_vars

\* A request on somebody else's transaction was refused while the store holds
\* a RETURNED and an overdue open transaction.
C10_Witness ==
  /\ response.kind = "Forbidden"
  /\ transactions[2].status = "RETURNED"
  /\ transactions[1].status = "BORROWED"
  /\ transactions[1].dueDate < now

\* Days overdue of the claim: the least whole number of days that covers the
\* time from dueDate to evaluationDate.
C11_DaysOverdue(dueDate, evaluationDate) ==
  CHOOSE n \in 0 .. (evaluationDate - dueDate) :
    /\ n * TicksPerDay >= evaluationDate - dueDate
    /\ (n - 1) * TicksPerDay < evaluationDate - dueDate

\* Fee of the claim, in cents.
C11_Fee(dueDate, evaluationDate) ==
  IF evaluationDate <= dueDate THEN 0
  ELSE IF 50 * C11_DaysOverdue(dueDate, evaluationDate) <= 2500
       THEN 50 * C11_DaysOverdue(dueDate, evaluationDate)
       ELSE 2500

\* C11: lateFee(dueDate, evaluationDate) is 0 when evaluationDate <= dueDate
\* and otherwise min(50 x daysOverdue, 2500) cents with daysOverdue the
\* ceiling of the elapsed days; the cap is first reached at 50 days and a
\* partial day counts as a full day.  Stated of the fee of every due date in
\* the store at the current instant, and of the fee every returned
\* transaction carries.
C11_LateFeeFormula ==
  \A i \in TransIdx :
    LET d == transactions[i].dueDate
        r == transactions[i].returnDate
    IN
    /\ calculateLateFee(d, now) = C11_Fee(d, now)
    /\ now <= d => calculateLateFee(d, now) = 0
    /\ now = d + 1 => calculateLateFee(d, now) = 50
    /\ (d < now /\ now <= d + Day(49)) => calculateLateFee(d, now) < 2500
    /\ now > d + Day(49) => calculateLateFee(d, now) = 2500
    /\ transactions[i].status = "RETURNED" =>
         transactions[i].lateFee = C11_Fee(d, r)

\* trans1 was returned one tick into the 50th day after its due date and
\* carries the capped fee.
C11_Witness ==
  /\ response.kind = "Returned"
  /\ transactions[1].status = "RETURNED"
  /\ transactions[1].returnDate = transactions[1].dueDate + Day(49) + 1
  /\ transactions[1].lateFee = 2500

\* C12: for a fixed dueDate the fee does not decrease as the evaluation date
\* moves later past the due date, and it never exceeds 25.00.
C12_FeeMonotoneAndCapped ==
  \A i \in TransIdx :
    LET d == transactions[i].dueDate IN
    /\ \A e \in FeeInstants :
         /\ calculateLateFee(d, e) <= 2500
         /\ (d < e /\ e <= now) => calculateLateFee(d, e) <= calculateLateFee(d, now)
         /\ (d < now /\ now <= e) => calculateLateFee(d, now) <= calculateLateFee(d, e)
    /\ transactions[i].lateFee <= 2500

\* trans1 was returned more than 50 days after its due date and carries no
\* more than the maximum; a day earlier the fee was already the maximum.
C12_Witness ==
  /\ response.kind = "Returned"
  /\ transactions[1].status = "RETURNED"
  /\ transactions[1].returnDate > transactions[1].dueDate + Day(51)
  /\ transactions[1].lateFee = 2500
  /\ calculateLateFee(transactions[1].dueDate, now - TicksPerDay) = 2500

\* Due date transaction i had before any renewal of this run.
C13_OriginalDueDate(i) ==
  IF i <= Len(InitTransactions)
  THEN InitTransactions[i].dueDate
  ELSE transactions[i].borrowDate
         + C6_LoanPeriodDays(users[transactions[i].userId].membershipType)
             * TicksPerDay

\* Renewals transaction i had before this run.
C13_OriginalRenewals(i) ==
  IF i <= Len(InitTransactions) THEN InitTransactions[i].renewalCount ELSE 0

\* C13: a successful Renew sets dueDate to the previous dueDate plus the loan
\* period of the owner's membershipType (not now plus the period), adds one
\* to renewalCount, changes no book and nothing else of the transaction, so
\* that after k successful renewals dueDate = original dueDate + k x period.
C13_RenewEffect ==
  [][ \A c \in Callers, id \in RequestTransIds :
        LET i == FindIndex(id) IN
        (Renew(c, id) /\ response'.kind = "Renewed") =>
          /\ i # 0
          /\ LET period == C6_LoanPeriodDays(
                              users[transactions[i].userId].membershipType)
                              * TicksPerDay
             IN
             /\ transactions' = [transactions EXCEPT
                   ![i].dueDate = transactions[i].dueDate + period,
                   ![i].renewalCount = transactions[i].renewalCount + 1]
             /\ transactions'[i].dueDate =
                  C13_OriginalDueDate(i)
                    + (transactions'[i].renewalCount - C13_OriginalRenewals(i))
                        * period
          /\ books' = books
    ]_vars

\* The STUDENT member renewed a loan made in this run: it is now due two
\* loan periods after it was made, which is not one period from now.
C13_Witness ==
  /\ response.kind = "Renewed"
  /\ Len(transactions) > Len(InitTransactions)
  /\ LET t == transactions[Len(transactions)] IN
       /\ t.userId = "user2"
       /\ t.renewalCount = 1
       /\ t.status = "BORROWED"
       /\ t.dueDate = t.borrowDate + 2 * 21 * TicksPerDay
       /\ t.dueDate # now + 21 * TicksPerDay

\* The first of the remaining preconditions of Renew that fails, in the
\* order of the claim.
C14_FirstFailing(i) ==
  IF transactions[i].status # "BORROWED" THEN "NotRenewable"
  ELSE IF ~(transactions[i].renewalCount < 3) THEN "RenewalLimitReached"
  ELSE IF ~(now <= transactions[i].dueDate) THEN "Overdue"
  ELSE "Renewed"

\* C14: a Renew by the transaction's owner checks status = BORROWED (else
\* NotRenewable), renewalCount < 3 (else RenewalLimitReached) and
\* now <= dueDate (else Overdue) in this order and reports the first that
\* fails; a Renew at exactly now = dueDate is allowed.
C14_RenewCheckOrder ==
  [][ \A c \in Callers, id \in RequestTransIds :
        LET i == FindIndex(id) IN
        (i # 0 /\ transactions[i].userId = c /\ RenewRenew(c, id)) =>
          /\ response'.kind = C14_FirstFailing(i)
          /\ (transactions[i].status = "BORROWED"
                /\ transactions[i].renewalCount < 3
                /\ now = transactions[i].dueDate) => response'.kind = "Renewed"
    ]_vars

\* An open loan with three renewals that has fallen overdue was refused for
\* its renewal count.
C14_Witness ==
  /\ response.kind = "RenewalLimitReached"
  /\ transactions[1].status = "BORROWED"
  /\ transactions[1].renewalCount = 3
  /\ transactions[1].dueDate < now

C17_ReturnedIsTerminal ==
  [][ /\ Len(transactions') >= Len(transactions)
      /\ \A i \in TransIdx :
           /\ transactions'[i]._id = transactions[i]._id
           /\ transactions[i].status = "RETURNED" =>
                /\ transactions'[i].status = "RETURNED"
                /\ transactions'[i].returnDate = transactions[i].returnDate
                /\ transactions'[i].lateFee = transactions[i].lateFee
                /\ transactions'[i].dueDate = transactions[i].dueDate
                /\ transactions'[i].renewalCount = transactions[i].renewalCount
    ]_vars

\* trans1 was returned on its due date, when a renewal would still be in
\* time, and its owner's Renew was refused.
C17_Witness ==
  /\ response.kind = "NotRenewable"
  /\ transactions[1].status = "RETURNED"
  /\ transactions[1].returnDate = transactions[1].dueDate
  /\ now <= transactions[1].dueDate

\* Borrowing limit of the claim's policy table.
C18_Limit(membershipType) ==
  IF membershipType = "PREMIUM" THEN 10
  ELSE IF membershipType = "STUDENT" THEN 5
  ELSE 3

C19_Borrowed(b) ==
  {r \in inflight : r.op = "borrow" /\ r.arg = b /\ r.reply = "Borrowed"}

\* Return requests answered with success whose transaction is on book b.
C19_Returned(b) ==
  {r \in inflight : /\ r.op = "return"
                    /\ r.reply = "Returned"
                    /\ transactions[FindIndex(r.arg)].bookId = b}

\* C19: under any interleaving of concurrently submitted Borrow, Return and
\* Renew requests each request's checks and writes are one indivisible step:
\* every counter is the initial count minus the Borrows that succeeded plus
\* the Returns that succeeded and never below 0, every successful Borrow has
\* its transaction in the store, and two Borrow requests for a book with one
\* available copy never both succeed.
C19_RequestsAreIndivisible ==
  /\ \A b \in BookIds :
       /\ books[b].availableQuantity >= 0
       /\ books[b].availableQuantity =
            InitBooks[b].availableQuantity
              - Cardinality(C19_Borrowed(b)) + Cardinality(C19_Returned(b))
       /\ Cardinality(C19_Borrowed(b)) >= 2 =>
            InitBooks[b].availableQuantity + Cardinality(C19_Returned(b)) >= 2
  /\ Len(transactions) =
       Len(InitTransactions)
         + Cardinality({r \in inflight : r.op = "borrow" /\ r.reply = "Borrowed"})
  /\ \A r \in inflight :
       (r.op = "borrow" /\ r.reply = "Borrowed") =>
         \E i \in TransIdx : /\ transactions[i].userId = r.userId
                              /\ transactions[i].bookId = r.arg

\* Two members asked for the last copy of book3 while both requests were in
\* flight: one got it, the other was told Unavailable.
C19_Witness ==
  /\ books["book3"].availableQuantity = 0
  /\ \E r1, r2 \in inflight :
       /\ r1.op = "borrow" /\ r2.op = "borrow"
       /\ r1.arg = "book3" /\ r2.arg = "book3"
       /\ r1.userId # r2.userId
       /\ r1.reply = "Borrowed"
       /\ r2.reply = "Unavailable"
       /\ r1.id > r2.id

\* C20: in the catalogue, after any sequence of add-book, update-book and
\* delete-book requests that pass input validation, every book has
\* 0 <= availableQuantity <= totalQuantity.
C20_CatalogueQuantities ==
  \A i \in 1 .. Len(catalogue) :
    /\ 0 <= catalogue[i].availableQuantity
    /\ catalogue[i].availableQuantity <= catalogue[i].totalQuantity

\* C21: a book added without an availableQuantity is created with
\* availableQuantity = totalQuantity, and a book added with an explicitly
\* given availableQuantity v, for every allowed v including 0, is created
\* with availableQuantity = v.
C21_AddedAvailableQuantity ==
  [][ \A body \in CatalogueBodies :
        (AddBook(body) /\ response'.kind = "BookCreated") =>
          /\ Len(catalogue') = Len(catalogue) + 1
          /\ catalogue'[Len(catalogue')].totalQuantity = body.totalQuantity
          /\ catalogue'[Len(catalogue')].availableQuantity =
               IF body.availableQuantity = Absent
               THEN body.totalQuantity
               ELSE body.availableQuantity
    ]_vars

\* C22: a book's availableQuantity changes only by -1 in a successful Borrow
\* and by +1 in a successful Return; no other operation, in particular
\* update-book, changes the availableQuantity of an existing book.
C22_OnlyEngineWritesAvailability ==
  [][ /\ \A b \in BookIds :
           books'[b].availableQuantity # books[b].availableQuantity =>
             \/ /\ response'.kind = "Borrowed"
                /\ books'[b].availableQuantity = books[b].availableQuantity - 1
             \/ /\ response'.kind = "Returned"
                /\ books'[b].availableQuantity = books[b].availableQuantity + 1
      /\ \A id \in RequestCatalogueIds, body \in CatalogueBodies :
           LET i == BookIndex(id) IN
           (i # 0 /\ UpdateBook(id, body)) =>
             catalogue'[i].availableQuantity = catalogue[i].availableQuantity
    ]_vars

\* C27: after any sequence of add-book and delete-book requests all books
\* of the catalogue have pairwise distinct ids.
C27_DistinctCatalogueIds ==
  \A i, j \in 1 .. Len(catalogue) :
    i # j => catalogue[i]._id # catalogue[j]._id

\* C23: availability is real-time.  A successful check-availability reports
\* the availableQuantity the engine holds for that book (so one lower after a
\* Borrow, one higher after a Return), and a book that add-book has created
\* is a book the engine knows, which a Borrow request can name.
C23_AvailabilityIsRealTime ==
  [][ /\ \A id \in RequestCatalogueIds :
           (CheckAvailability(id) /\ response'.kind = "Availability") =>
             /\ response'.bookId \in DOMAIN books
             /\ response'.availableQuantity =
                  books[response'.bookId].availableQuantity
      /\ \A body \in CatalogueBodies :
           (AddBook(body) /\ response'.kind = "BookCreated") =>
             BookName(catalogue'[Len(catalogue')]._id) \in DOMAIN books' ]_vars

\* The status the list displays for a stored transaction.
C24_DisplayedStatus(t) ==
  IF t.status = "BORROWED" /\ t.dueDate < now THEN "OVERDUE" ELSE t.status

\* C24: a list request whose query carries status S is answered with exactly
\* those transactions of the caller whose displayed status is S: with S =
\* OVERDUE all and only the caller's overdue transactions, with S = BORROWED
\* none of them.
C24_StatusFilterOnDisplayedStatus ==
  [][ \A userId \in Callers, status \in StatusFilters \ {"undefined"} :
        ListTransactions(userId, [status |-> status]) =>
          { response'.transactions[k]._id :
              k \in 1 .. Len(response'.transactions) }
            = { transactions[i]._id :
                  i \in { j \in TransIdx :
                            /\ transactions[j].userId = userId
                            /\ C24_DisplayedStatus(transactions[j]) = status } }
    ]_vars

\* C25: OVERDUE is a derived status only.  The stored status of every
\* transaction is BORROWED or RETURNED, so a transaction that is not returned
\* and past its due date counts toward its member's limit, makes a Borrow of
\* the same book by the same member fail, and can be returned by its member.
C25_OverdueIsDerivedOnly ==
  /\ \A i \in TransIdx : transactions[i].status \in {"BORROWED", "RETURNED"}
  /\ \A i \in TransIdx :
       LET t == transactions[i] IN
       (t.status # "RETURNED" /\ t.dueDate < now) =>
         /\ currentBorrowedCount(t.userId) = Cardinality(ActiveOf(t.userId))
         /\ BorrowOutcome(t.userId, t.bookId)
              \in {"Unavailable", "LimitReached", "AlreadyBorrowed"}
         /\ ReturnOutcome(t.userId, t._id) = "Returned"

\* C30: the late fee of a returned transaction is kept.  When a RETURNED
\* transaction whose returnDate is later than its dueDate is saved through
\* the Transaction model, its lateFee after the save is the fee of the days
\* from dueDate to returnDate, 0.50 a day and at most 25.00, which is the
\* value the Return operation stored.
C30_SaveKeepsLateFee ==
  [][ \A i \in TransIdx :
        ( /\ SaveTransaction(i)
          /\ transactions[i].status = "RETURNED"
          /\ transactions[i].returnDate > transactions[i].dueDate ) =>
            /\ transactions'[i].lateFee =
                 Min(CeilDiv(transactions[i].returnDate - transactions[i].dueDate,
                             TicksPerDay) * 50, 2500)
            /\ transactions'[i].lateFee = transactions[i].lateFee ]_vars

\* C26: every transaction of the store references a member of the engine's
\* member table and a book of the engine's book table, and no Borrow, Return
\* or Renew request is answered with an internal error (500).
C26_ReferencesExist ==
  /\ \A i \in TransIdx :
       /\ transactions[i].userId \in UserIds
       /\ transactions[i].bookId \in DOMAIN books
  /\ response.status # 500

\* A transaction created by a Borrow request has since been renewed or
\* returned.
C26_Witness ==
  /\ response.kind \in {"Renewed", "Returned"}
  /\ \E i \in TransIdx :
       /\ i > Len(InitTransactions)
       /\ transactions[i].renewalCount > 0 \/ transactions[i].status = "RETURNED"

\* Number of transactions of store s on book b that are not RETURNED.
C28_ActiveOnBook(s, b) ==
  Cardinality({i \in 1 .. Len(s) : s[i].bookId = b /\ s[i].status # "RETURNED"})

\* C28: for every book, availableQuantity plus the number of its active
\* (not RETURNED) transactions is in every reachable state what it was
\* initially: no Borrow, Return or Renew request changes the sum.
C28_CopiesAccountedFor ==
  \A b \in BookIds :
    books[b].availableQuantity + C28_ActiveOnBook(transactions, b)
      = InitBooks[b].availableQuantity + C28_ActiveOnBook(InitTransactions, b)

\* A book has been borrowed and a transaction returned.
C28_Witness ==
  /\ Len(transactions) > Len(InitTransactions)
  /\ response.kind = "Returned"
  /\ books # InitBooks

\* A Borrow request of this member, whatever the book, fails with
\* LimitReached once it reaches the limit check.
C29_LimitReached(userId) ==
  /\ userId \in UserIds
  /\ currentBorrowedCount(userId) >= getBorrowingLimit(users[userId].membershipType)

\* C29: the currentBorrowedCount that the user profile and the borrowed-books
\* operations report for a member is the number of that member's active
\* transactions, and the canBorrowMore they report is true exactly when a
\* Borrow by that member would not fail with LimitReached.
C29_ReportedCountIsActiveCount ==
  [][ \A callerId \in Callers, id \in RequestUserIds :
        ( /\ GetUser(callerId, id) \/ GetBorrowedBooks(callerId, id)
          /\ response'.status = 200 ) =>
            /\ response'.stats.currentBorrowedCount = Cardinality(ActiveOf(id))
            /\ response'.stats.canBorrowMore = ~C29_LimitReached(id) ]_vars

====
